---- MODULE Spec2Model ----
(***************************************************************************)
(* multireq: a fan-out HTTP dispatcher.  One inbound request is replayed   *)
(* against N targets; the first satisfying response is relayed, the other  *)
(* targets are cancelled, and 503 is written when every target fails.      *)
(*                                                                         *)
(* src/main.go holds two variants of the handler:                          *)
(*   "shared"  (lines 59-145): one buffered responses channel, one         *)
(*             buffered fails channel, a failure-counter goroutine;        *)
(*   "reflect" (lines 211-302): one unbuffered channel and one fail        *)
(*             channel per target, a collector goroutine, reflect.Select.  *)
(* Both are modelled; the variable variant says which one a behaviour is   *)
(* about.  Targets are numbered 0..N-1 as in the source.                   *)
(***************************************************************************)
EXTENDS Integers, Sequences, FiniteSets, TLC

\* Largest number of targets (len(targets)) explored.
MaxTargets == 3
\* Number of chunks of every target's response body.
BodyLen == 2

VARIABLES
    variant,    \* "shared" or "reflect": which handler serves the request
    N,          \* len(targets)
    hpc,        \* the handler's position
    i,          \* the handler's loop variable of the spawn loop
    ck,         \* the handler's cancel loop: channels it has gone through
    res,        \* the handler's res: the response it received, or NoRes
    chosen,     \* reflect: index returned by reflect.Select, or -1
    w,          \* the http.ResponseWriter
    copied,     \* io.Copy: its written, in chunks
    copyErr,    \* io.Copy: its err ("nil" or "error")
    cancels,    \* cancels[t]: "nil", "open" or "closed"
    ipc,        \* invoker goroutine t's position
    rt,         \* invoker t's (res, err) returned by RoundTrip, or NoRes
    outcomes,   \* history: the sends / closes invoker t has completed
    late,       \* history: t emitted an outcome after cancels[t] was closed
    fails,      \* shared: the buffered fails channel
    responses,  \* shared: the buffered responses channel
    allFailed,  \* shared: "open" or "closed"
    failChans,  \* reflect: fails[t]: "nil", "open" or "closed"
    failed,     \* reflect: the failed channel: "nil", "open" or "closed"
    cpc,        \* the failure goroutine's position
    ci,         \* the failure goroutine's loop variable
    panicked,   \* a channel operation has panicked
    bodyOpen,   \* targets whose response body is held open by the transport
    inbound,    \* the inbound request *r
    urlObj,     \* the URL objects: urlObj[0] is *r.URL
    req,        \* req[t]: the clone of target t, or NoReq
    orig,       \* history: the inbound request as the handler received it
    reqBody,    \* the chunks of the inbound request's body
    bodyPos,    \* bodyPos[b]: chunks already read from body object b
    sent        \* sent[t]: what invoker t's transport has read of its body

vars == <<variant, N, hpc, i, ck, res, chosen, w, copied, copyErr, cancels,
          ipc, rt, outcomes, late, fails, responses, allFailed, failChans,
          failed, cpc, ci, panicked, bodyOpen, inbound, urlObj, req, orig,
          reqBody,
          bodyPos, sent>>

hvars == <<hpc, i, ck, res, chosen, w, copied, copyErr>>
ivars == <<ipc, rt, outcomes, late>>
chvars == <<fails, responses, allFailed, failChans, failed>>
gvars == <<cpc, ci>>
rvars == <<inbound, urlObj, req, orig, reqBody, bodyPos, sent>>

AllTargets == 0..(MaxTargets - 1)
Targets == 0..(N - 1)

NoRes == [kind |-> "none"]
\* RoundTrip returned err != nil.
ErrRes == [kind |-> "err"]
\* The status codes a target may answer with.
Statuses == {200, 408, 499, 500}
\* RoundTrip returned a response of target t.
Response(t, s) == [kind |-> "res", from |-> t, status |-> s]
Results(t) == {ErrRes} \cup {Response(t, s) : s \in Statuses}

\* res.Header and res.Body of target t's response: every key's value and
\* every chunk names the target it comes from.
HeaderKeys(t) == IF t % 2 = 0 THEN {"Content-Type"} ELSE {"Content-Type", "Server"}
HeaderOf(t) == [k \in HeaderKeys(t) |-> <<t, k>>]
BodyOf(t) == [k \in 1..BodyLen |-> <<t, k>>]

EmptyHeader == [k \in {} |-> <<>>]

(***************************************************************************)
(* The http.ResponseWriter w, as the handler uses it.                      *)
(***************************************************************************)
NewWriter ==
    [header |-> EmptyHeader,   \* w.Header(): the live header map
     status |-> 0,             \* the committed status, 0 while uncommitted
     sent |-> EmptyHeader,     \* the headers committed with the status
     calls |-> 0,              \* number of WriteHeader calls
     body |-> <<>>,            \* the body chunks written
     flushed |-> FALSE]

\* w.WriteHeader(code): the first call commits the status and the headers
\* set so far; net/http ignores the status of a later call.
WriteHeader(x, code) ==
    [x EXCEPT !.calls = @ + 1,
              !.status = IF x.status = 0 THEN code ELSE @,
              !.sent = IF x.status = 0 THEN x.header ELSE @]

\* w.Write(chunk), as io.Copy calls it: commits 200 first when no status
\* has been committed.
Write(x, chunk) ==
    LET y == IF x.status = 0 THEN WriteHeader(x, 200) ELSE x
    IN  [y EXCEPT !.body = Append(@, chunk)]

\* The writes of io.Copy: the first k chunks of body, in order.
RECURSIVE WriteChunks(_, _, _)
WriteChunks(x, body, k) ==
    IF k = 0 THEN x ELSE Write(WriteChunks(x, body, k - 1), body[k])

\* w.(http.Flusher).Flush()
Flush(x) ==
    LET y == IF x.status = 0 THEN WriteHeader(x, 200) ELSE x
    IN  [y EXCEPT !.flushed = TRUE]

\* Faulty header copy: the winner's headers never reach w.Header().
CopyHeaders_Dropped(x, h) == x

\* for k, v := range res.Header { w.Header()[k] = v }
CopyHeaders(x, h) ==
    [x EXCEPT !.header = [k \in (DOMAIN h) \cup (DOMAIN x.header) |->
                             IF k \in DOMAIN h THEN h[k] ELSE x.header[k]]]

(***************************************************************************)
(* Outcome classification.                                                 *)
(***************************************************************************)
\* Faulty classification: status 500 itself passes as satisfying.
Classify_Above500(r) ==
    IF r.kind = "err" THEN "fail"
    ELSE IF r.status > 500 \/ r.status = 408 THEN "fail"
    ELSE "success"

\* The switch of the shared variant's invoker: "fail" sends on fails,
\* "success" sends the response on responses.
Classify(r) ==
    IF r.kind = "err" THEN "fail"
    ELSE IF r.status >= 500 \/ r.status = 408 THEN "fail"
    ELSE "success"

\* The if / else-if chain of the reflect variant's invoker.
ClassifyR(r) ==
    IF r.kind = "err" THEN "fail"
    ELSE IF r.status >= 500 \/ r.status = 408 THEN "fail"
    ELSE "success"

\* make(chan *http.Response, len(targets))
ResponsesCap == N
\* Faulty allocation: fails holds one item less than there are targets.
FailsCap_OneShort == N - 1

\* make(chan bool, len(targets))
FailsCap == N
\* Faulty loop bounds of the failure counter: one receive too few, one too
\* many.
FailsNeeded_OneShort == N - 1
FailsNeeded_OneMore == N + 1

\* for i := 0; i < len(targets); i++ { <-fails }
FailsNeeded == N

(***************************************************************************)
(* The inbound request r, its URL, and the per-target clones.  A string is *)
(* the sequence of its characters.  Pointers (r.URL, req.Header, req.Body) *)
(* are the numbers of the objects they point to.                           *)
(***************************************************************************)
Letters == {"a", "b", "h", "o", "p", "q", "s", "t"}
DigitChars == <<"0", "1", "2", "3", "4", "5", "6", "7", "8", "9">>
Digits == {DigitChars[k] : k \in 1..Len(DigitChars)}

\* url.Parse returned nil and an error.
NoURL == [kind |-> "nil"]
MakeURL(scheme, opaque, host, path, query) ==
    [kind |-> "url", Scheme |-> scheme, Opaque |-> opaque, Host |-> host,
     Path |-> path, RawQuery |-> query]

\* urls[t].Host: the host of target t, with a port for the odd targets.
TargetHost(t) ==
    <<"t", DigitChars[t + 1]>> \o (IF t % 2 = 1 THEN <<":", "8">> ELSE <<>>)

\* The smallest k with s[k] = c, or 0.
RECURSIVE IndexFrom(_, _, _)
IndexFrom(s, c, k) ==
    IF k > Len(s) THEN 0
    ELSE IF s[k] = c THEN k
    ELSE IndexFrom(s, c, k + 1)
Index(s, c) == IndexFrom(s, c, 1)

\* u.EscapedPath(): the characters of a path that need a percent escape.
RECURSIVE EscapePath(_)
EscapePath(s) ==
    IF s = <<>> THEN <<>>
    ELSE (CASE Head(s) = " " -> <<"%", "2", "0">>
            [] Head(s) = "?" -> <<"%", "3", "F">>
            [] Head(s) = "%" -> <<"%", "2", "5">>
            [] OTHER -> <<Head(s)>>) \o EscapePath(Tail(s))

\* Every % of s starts an escape that unescape knows.
RECURSIVE ValidEscapes(_)
ValidEscapes(s) ==
    IF s = <<>> THEN TRUE
    ELSE IF Head(s) # "%" THEN ValidEscapes(Tail(s))
    ELSE /\ Len(s) >= 3
         /\ <<s[2], s[3]>> \in {<<"2", "0">>, <<"3", "F">>, <<"2", "5">>}
         /\ ValidEscapes(SubSeq(s, 4, Len(s)))

\* unescape(s, encodePath) of a string with valid escapes.
RECURSIVE Unescape(_)
Unescape(s) ==
    IF s = <<>> THEN <<>>
    ELSE IF Head(s) # "%" THEN <<Head(s)>> \o Unescape(Tail(s))
    ELSE (CASE <<s[2], s[3]>> = <<"2", "0">> -> <<" ">>
            [] <<s[2], s[3]>> = <<"3", "F">> -> <<"?">>
            [] OTHER -> <<"%">>) \o Unescape(SubSeq(s, 4, Len(s)))

\* u.String()
String(u) ==
    (IF u.Scheme # <<>> THEN u.Scheme \o <<":">> ELSE <<>>)
    \o (IF u.Opaque # <<>> THEN u.Opaque
        ELSE (IF u.Scheme # <<>> \/ u.Host # <<>>
                THEN <<"/", "/">> \o u.Host ELSE <<>>)
             \o (IF u.Path # <<>> /\ u.Path[1] # "/" /\ u.Host # <<>>
                   THEN <<"/">> ELSE <<>>)
             \o EscapePath(u.Path))
    \o (IF u.RawQuery # <<>> THEN <<"?">> \o u.RawQuery ELSE <<>>)

\* getscheme(rawurl): the letters before the first ':', if nothing else
\* comes before it.
RECURSIVE GetScheme(_, _)
GetScheme(s, k) ==
    IF k > Len(s) THEN [scheme |-> <<>>, rest |-> s, err |-> FALSE]
    ELSE IF s[k] \in Letters THEN GetScheme(s, k + 1)
    ELSE IF s[k] \in Digits \cup {"+", "-", "."}
      THEN IF k = 1 THEN [scheme |-> <<>>, rest |-> s, err |-> FALSE]
           ELSE GetScheme(s, k + 1)
    ELSE IF s[k] = ":"
      THEN IF k = 1 THEN [scheme |-> <<>>, rest |-> <<>>, err |-> TRUE]
           ELSE [scheme |-> SubSeq(s, 1, k - 1),
                 rest |-> SubSeq(s, k + 1, Len(s)), err |-> FALSE]
    ELSE [scheme |-> <<>>, rest |-> s, err |-> FALSE]

\* url.Parse(rawurl) of a string without fragment and without user info.
Parse(s) ==
    LET g == GetScheme(s, 1)
        q == Index(g.rest, "?")
        rest == IF q = 0 THEN g.rest ELSE SubSeq(g.rest, 1, q - 1)
        query == IF q = 0 THEN <<>> ELSE SubSeq(g.rest, q + 1, Len(g.rest))
        rooted == rest # <<>> /\ rest[1] = "/"
        slashes == Len(rest) >= 2 /\ rest[1] = "/" /\ rest[2] = "/"
        auth == SubSeq(rest, 3, Len(rest))
        j == Index(auth, "/")
        host == IF j = 0 THEN auth ELSE SubSeq(auth, 1, j - 1)
        path == IF ~slashes THEN rest
                ELSE IF j = 0 THEN <<>>
                ELSE SubSeq(auth, j, Len(auth))
    IN  IF g.err THEN NoURL
        ELSE IF ~rooted /\ g.scheme # <<>>
          THEN MakeURL(g.scheme, rest, <<>>, <<>>, query)
        ELSE IF ~ValidEscapes(path) THEN NoURL
        ELSE MakeURL(g.scheme, <<>>, IF slashes THEN host ELSE <<>>,
                     Unescape(path), query)

\* The requests a client may send: the path and the query of the request
\* line, the scheme and host of a request line in absolute form, the body.
InboundPaths == {<<"/">>, <<"/", "p">>, <<"/", "a", " ", "b">>,
                 <<"/", "a", "?">>}
InboundQueries == {<<>>, <<"q">>}
InboundOrigins == {<<<<>>, <<>>>>, <<<<"h", "t", "t", "p", "s">>, <<"o">>>>}
InboundBodies == {<<>>, <<"b1">>, <<"b1", "b2">>}
InboundRequests == [url : {MakeURL(o[1], <<>>, o[2], p, q) :
                      o \in InboundOrigins, p \in InboundPaths,
                      q \in InboundQueries},
            body : InboundBodies]

\* The values *r.URL takes in the cloning loop: scheme "http", a target's
\* host, the path and the query of the inbound request.
LoopURLs ==
    {MakeURL(<<"h", "t", "t", "p">>, <<>>, TargetHost(t), p, q) :
        t \in AllTargets, p \in InboundPaths, q \in InboundQueries}

\* url.Parse(u.String()) for each of them.
Reparsed == [u \in LoopURLs |-> Parse(String(u))]

\* A GET of /p without body.
PlainGet == [url |-> MakeURL(<<>>, <<>>, <<>>, <<"/", "p">>, <<>>),
             body |-> <<>>]

\* No clone yet.
NoReq == [kind |-> "none"]
\* req := *r copies the fields of r: the clone holds r's pointers.
CopyOf(x) == [kind |-> "req", RequestURI |-> x.RequestURI, URL |-> x.URL,
              Header |-> x.Header, Body |-> x.Body]
\* Faulty clone: url.Parse's result is dropped, the clone keeps r's URL.
FreshURL_Aliased(k) == 0

\* url.Parse allocates the URL of clone k: its place among the URL objects
\* (0 is the URL of the inbound request).
FreshURL(k) == k + 1

\* What the transport of invoker t has read of the request body.
NothingSent == [chunks |-> <<>>, eof |-> FALSE]

\* The handler is entered: nothing is allocated, no goroutine is started.
InitRace ==
    /\ variant \in {"shared", "reflect"}
    /\ N \in 1..MaxTargets
    /\ hpc = "start"
    /\ i = 0
    /\ ck = 0
    /\ res = NoRes
    /\ chosen = -1
    /\ w = NewWriter
    /\ copied = 0
    /\ copyErr = "nil"
    /\ cancels = [t \in AllTargets |-> "nil"]
    /\ ipc = [t \in AllTargets |-> "none"]
    /\ rt = [t \in AllTargets |-> NoRes]
    /\ outcomes = [t \in AllTargets |-> <<>>]
    /\ late = [t \in AllTargets |-> FALSE]
    /\ fails = <<>>
    /\ responses = <<>>
    /\ allFailed = "open"
    /\ failChans = [t \in AllTargets |-> "nil"]
    /\ failed = "nil"
    /\ cpc = "none"
    /\ ci = 0
    /\ panicked = FALSE
    /\ bodyOpen = {}

\* The handler is entered with the inbound request q.
Enter(q) ==
    /\ inbound = [RequestURI |-> String(q.url), URL |-> 0, Header |-> 0,
                  Body |-> 0]
    /\ urlObj = [k \in 0..MaxTargets |-> IF k = 0 THEN q.url ELSE NoURL]
    /\ req = [t \in AllTargets |-> NoReq]
    /\ orig = [RequestURI |-> String(q.url), URL |-> q.url]
    /\ reqBody = q.body
    /\ bodyPos = [b \in {0} |-> 0]
    /\ sent = [t \in AllTargets |-> NothingSent]

\* The race between the targets does not read the request: it is explored
\* for one request.
Init == InitRace /\ Enter(PlainGet)

\* The cloning of the request is explored for every inbound request.
CloneInit == InitRace /\ \E q \in InboundRequests : Enter(q)

\* req := *r; req.URL.Host = urls[k].Host;
\* req.URL, _ = url.Parse(r.URL.String())
\* The copy holds r's URL pointer, so the host is written into *r.URL; then
\* the clone gets the URL that url.Parse allocates.
Clone(k) ==
    LET c == CopyOf(inbound)
        written == [urlObj EXCEPT ![c.URL].Host = TargetHost(k)]
        parsed == Reparsed[written[inbound.URL]]
    IN  /\ urlObj' = [written EXCEPT ![FreshURL(k)] = parsed]
        /\ req' = [req EXCEPT ![k] = [c EXCEPT !.URL = FreshURL(k)]]

\* Faulty allocation: the channel is declared and never made.
NewChan_Nil == "nil"

\* make(chan struct{}): a new channel is open.
NewChan == "open"

\* close(c) panics when c is nil or is closed already.
ClosePanics(c) == c # "open"

\* RoundTrip returned r while the clone's cancel channel was in state c: the
\* transport holds the connection of a response until its body is read to
\* the end or closed, or until req.Cancel is closed.
HoldsBody(r, c) == r.kind = "res" /\ c # "closed"

(***************************************************************************)
(* The shared-channel handler (lines 59-145).                              *)
(***************************************************************************)
\* r.RequestURI = ""; r.URL.Scheme = "http"
Prepare ==
    /\ variant = "shared"
    /\ hpc = "start"
    /\ inbound' = [inbound EXCEPT !.RequestURI = <<>>]
    /\ urlObj' = [urlObj EXCEPT ![inbound.URL].Scheme = <<"h", "t", "t", "p">>]
    /\ hpc' = "loop"
    /\ UNCHANGED <<variant, N, panicked, bodyOpen, i, ck, res, chosen, w,
                   copied, copyErr, cancels, ivars, chvars, gvars, req, orig,
                   reqBody, bodyPos, sent>>

\* The transport of invoker t writes the request: it reads the next chunk of
\* req.Body, or finds the body at its end.  A Read is served by the body
\* object, whoever calls it.
ReadBody(t) ==
    /\ variant = "shared"
    /\ ipc[t] = "roundtrip"
    /\ ~sent[t].eof
    /\ LET b == req[t].Body IN
         IF bodyPos[b] < Len(reqBody)
           THEN /\ sent' = [sent EXCEPT
                               ![t].chunks = Append(@, reqBody[bodyPos[b] + 1])]
                /\ bodyPos' = [bodyPos EXCEPT ![b] = @ + 1]
           ELSE /\ sent' = [sent EXCEPT ![t].eof = TRUE]
                /\ UNCHANGED bodyPos
    /\ UNCHANGED <<variant, N, panicked, bodyOpen, hvars, cancels, ivars,
                   chvars, gvars, inbound, urlObj, req, orig, reqBody>>

\* One iteration of the spawn loop: the request is cloned for target i, the
\* clone gets its cancel channel and its invoker goroutine is started.
Spawn ==
    /\ variant = "shared"
    /\ hpc = "loop"
    /\ i < N
    /\ Clone(i)
    /\ cancels' = [cancels EXCEPT ![i] = NewChan]
    /\ ipc' = [ipc EXCEPT ![i] = "roundtrip"]
    /\ i' = i + 1
    /\ UNCHANGED <<variant, N, panicked, bodyOpen, hpc, ck, res, chosen, w,
                   copied, copyErr, rt, outcomes, late, chvars, gvars,
                   inbound, orig, reqBody, bodyPos, sent>>

\* go func() { ... }(): the failure-counter goroutine is started and the
\* handler enters its select loop.
StartFailCounter ==
    /\ variant = "shared"
    /\ hpc = "loop"
    /\ i = N
    /\ cpc' = "recv"
    /\ ci' = 0
    /\ hpc' = "select"
    /\ UNCHANGED <<variant, N, rvars, panicked, bodyOpen, i, ck, res, chosen,
                   w, copied, copyErr, cancels, ivars, chvars>>

\* rt.RoundTrip(&req) returns: an error, or the target's response.
RoundTrip(t) ==
    /\ variant = "shared"
    /\ ipc[t] = "roundtrip"
    /\ \E r \in Results(t) :
          /\ rt' = [rt EXCEPT ![t] = r]
          /\ bodyOpen' = IF HoldsBody(r, cancels[t]) THEN bodyOpen \cup {t}
                         ELSE bodyOpen
    /\ ipc' = [ipc EXCEPT ![t] = "returned"]
    /\ UNCHANGED <<variant, N, rvars, panicked, hvars, cancels, outcomes,
                   late, chvars, gvars>>

\* rt.RoundTrip(&req) returns an error because req.Cancel was closed while
\* the exchange was in flight.
RoundTripCanceled(t) ==
    /\ variant = "shared"
    /\ ipc[t] = "roundtrip"
    /\ cancels[t] = "closed"
    /\ rt' = [rt EXCEPT ![t] = ErrRes]
    /\ ipc' = [ipc EXCEPT ![t] = "returned"]
    /\ UNCHANGED <<variant, N, rvars, panicked, bodyOpen, hvars, cancels,
                   outcomes, late, chvars, gvars>>

\* Faulty switch: the error case logs and sends nothing.
Report_ErrSilent(t) ==
    /\ variant = "shared"
    /\ ipc[t] = "returned"
    /\ IF rt[t].kind = "err"
         THEN UNCHANGED <<fails, responses, outcomes>>
         ELSE IF rt[t].status >= 500 \/ rt[t].status = 408
         THEN /\ Len(fails) < N
              /\ fails' = Append(fails, TRUE)
              /\ UNCHANGED responses
              /\ outcomes' = [outcomes EXCEPT ![t] = Append(@, "fail")]
         ELSE /\ Len(responses) < N
              /\ responses' = Append(responses, rt[t])
              /\ UNCHANGED fails
              /\ outcomes' = [outcomes EXCEPT ![t] = Append(@, "success")]
    /\ late' = [late EXCEPT ![t] = (cancels[t] = "closed")]
    /\ ipc' = [ipc EXCEPT ![t] = "done"]
    /\ rt' = [rt EXCEPT ![t] = NoRes]
    /\ UNCHANGED <<variant, N, rvars, panicked, bodyOpen, hvars, cancels,
                   allFailed, failChans, failed, gvars>>

\* The invoker's switch: fails <- true, or responses <- res.  A send on a
\* full channel blocks.
Report(t) ==
    /\ variant = "shared"
    /\ ipc[t] = "returned"
    /\ IF Classify(rt[t]) = "fail"
         THEN /\ Len(fails) < FailsCap
              /\ fails' = Append(fails, TRUE)
              /\ UNCHANGED responses
              /\ outcomes' = [outcomes EXCEPT ![t] = Append(@, "fail")]
         ELSE /\ Len(responses) < ResponsesCap
              /\ responses' = Append(responses, rt[t])
              /\ UNCHANGED fails
              /\ outcomes' = [outcomes EXCEPT ![t] = Append(@, "success")]
    /\ late' = [late EXCEPT ![t] = (cancels[t] = "closed")]
    /\ ipc' = [ipc EXCEPT ![t] = "done"]
    /\ rt' = [rt EXCEPT ![t] = NoRes]
    /\ UNCHANGED <<variant, N, rvars, panicked, bodyOpen, hvars, cancels,
                   allFailed, failChans, failed, gvars>>

\* The failure counter: _, ok := <-fails.  fails is never closed, so ok is
\* always true.
FailCounterRecv ==
    /\ variant = "shared"
    /\ cpc = "recv"
    /\ ci < FailsNeeded
    /\ Len(fails) > 0
    /\ fails' = Tail(fails)
    /\ ci' = ci + 1
    /\ UNCHANGED <<variant, N, rvars, panicked, bodyOpen, hvars, cancels,
                   ivars, responses, allFailed, failChans, failed, cpc>>

\* The failure counter: close(allFailed) after its loop.
CloseAllFailed ==
    /\ variant = "shared"
    /\ cpc = "recv"
    /\ ci >= FailsNeeded
    /\ allFailed' = "closed"
    /\ panicked' = (panicked \/ ClosePanics(allFailed))
    /\ cpc' = "done"
    /\ UNCHANGED <<variant, N, rvars, bodyOpen, hvars, cancels, ivars, fails,
                   responses, failChans, failed, ci>>

\* select: case res := <-responses
RecvResponse ==
    /\ variant = "shared"
    /\ hpc = "select"
    /\ Len(responses) > 0
    /\ res' = Head(responses)
    /\ responses' = Tail(responses)
    /\ hpc' = "cancel"
    /\ ck' = 0
    /\ copied' = 0
    /\ UNCHANGED <<variant, N, rvars, panicked, bodyOpen, i, chosen, w,
                   copyErr, cancels, ivars, fails, allFailed, failChans,
                   failed, gvars>>

\* Faulty cancel loop: no cancel channel is closed.
ClosesCancel_None(k) == FALSE

\* for _, c := range cancels { close(c) }: whether the loop closes cancels[k].
ClosesCancel(k) == TRUE

\* The cancel loop.  Each invoker reads its own cancel channel only and the
\* handler does nothing else between two closes, so the loop is one step.
CloseCancels ==
    /\ variant = "shared"
    /\ hpc = "cancel"
    /\ cancels' = [t \in AllTargets |->
                      IF t \in Targets /\ ClosesCancel(t) THEN "closed"
                      ELSE cancels[t]]
    /\ panicked' = (panicked \/ \E t \in Targets :
                                    ClosesCancel(t) /\ ClosePanics(cancels[t]))
    /\ bodyOpen' = {t \in bodyOpen : ~(t \in Targets /\ ClosesCancel(t))}
    /\ ck' = N
    /\ hpc' = "relay"
    /\ UNCHANGED <<variant, N, rvars, i, res, chosen, w, copied, copyErr,
                   ivars, chvars, gvars>>

\* Faulty relay: the status is left to the first write of the body.
RelayHead_NoCommit(x, h, code) == CopyHeaders(x, h)

\* Lines 124-127: the header loop, then w.WriteHeader(res.StatusCode).
RelayHead(x, h, code) == WriteHeader(CopyHeaders(x, h), code)

\* Copy the winner's headers, then w.WriteHeader(res.StatusCode).
Relay ==
    /\ variant = "shared"
    /\ hpc = "relay"
    /\ w' = RelayHead(w, HeaderOf(res.from), res.status)
    /\ hpc' = "copy"
    /\ UNCHANGED <<variant, N, rvars, panicked, bodyOpen, i, ck, res, chosen,
                   copied, copyErr, cancels, ivars, chvars, gvars>>

\* Faulty relay: no return after io.Copy, the handler selects again.
AfterCopy_NoReturn == "select"

\* Where the handler goes after io.Copy: return.
AfterCopy == "done"

\* io.Copy(w, res.Body): the chunks of the body are written in order until
\* the end of the body (err is nil) or until a read or a write fails after k
\* chunks (err is the error); then the handler returns.  Only the handler
\* touches w and res.Body, so the copy is one step.
Copy ==
    /\ variant = "shared"
    /\ hpc = "copy"
    /\ \E k \in 0..BodyLen :
          /\ w' = WriteChunks(w, BodyOf(res.from), k)
          /\ copied' = k
          /\ copyErr' = IF k < BodyLen THEN "error" ELSE "nil"
          /\ bodyOpen' = IF k = BodyLen THEN bodyOpen \ {res.from}
                         ELSE bodyOpen
    /\ hpc' = AfterCopy
    /\ UNCHANGED <<variant, N, rvars, panicked, i, ck, res, chosen, cancels,
                   ivars, chvars, gvars>>

\* Where the handler goes after writing 503: return.
After503 == "done"

\* Faulty all-failed branch: an error text is written after the 503.
AllFailed503_WithBody ==
    /\ variant = "shared"
    /\ hpc = "select"
    /\ allFailed = "closed"
    /\ w' = Write(WriteHeader(w, 503), <<"error", 503>>)
    /\ hpc' = "done"
    /\ UNCHANGED <<variant, N, rvars, panicked, bodyOpen, i, ck, res, chosen,
                   copied, copyErr, cancels, ivars, chvars, gvars>>

\* select: case _, ok := <-allFailed with !ok: 503, flush, return.
AllFailed503 ==
    /\ variant = "shared"
    /\ hpc = "select"
    /\ allFailed = "closed"
    /\ w' = Flush(WriteHeader(w, 503))
    /\ hpc' = After503
    /\ UNCHANGED <<variant, N, rvars, panicked, bodyOpen, i, ck, res, chosen,
                   copied, copyErr, cancels, ivars, chvars, gvars>>

(***************************************************************************)
(* The reflect-select handler (lines 211-302).                             *)
(***************************************************************************)
\* r.RequestURI = ""; r.URL.Scheme = "http"
PrepareR ==
    /\ variant = "reflect"
    /\ hpc = "start"
    /\ inbound' = [inbound EXCEPT !.RequestURI = <<>>]
    /\ urlObj' = [urlObj EXCEPT ![inbound.URL].Scheme = <<"h", "t", "t", "p">>]
    /\ hpc' = "loop"
    /\ UNCHANGED <<variant, N, panicked, bodyOpen, i, ck, res, chosen, w,
                   copied, copyErr, cancels, ivars, chvars, gvars, req, orig,
                   reqBody, bodyPos, sent>>

\* The transport of invoker t writes the request: it reads the next chunk of
\* req.Body, or finds the body at its end.  A Read is served by the body
\* object, whoever calls it.
ReadBodyR(t) ==
    /\ variant = "reflect"
    /\ ipc[t] = "roundtrip"
    /\ ~sent[t].eof
    /\ LET b == req[t].Body IN
         IF bodyPos[b] < Len(reqBody)
           THEN /\ sent' = [sent EXCEPT
                               ![t].chunks = Append(@, reqBody[bodyPos[b] + 1])]
                /\ bodyPos' = [bodyPos EXCEPT ![b] = @ + 1]
           ELSE /\ sent' = [sent EXCEPT ![t].eof = TRUE]
                /\ UNCHANGED bodyPos
    /\ UNCHANGED <<variant, N, panicked, bodyOpen, hvars, cancels, ivars,
                   chvars, gvars, inbound, urlObj, req, orig, reqBody>>

\* One iteration of the spawn loop: the request is cloned for target i,
\* cancels[i] and fails[i] are made and the invoker goroutine is started.
SpawnR ==
    /\ variant = "reflect"
    /\ hpc = "loop"
    /\ i < N
    /\ Clone(i)
    /\ cancels' = [cancels EXCEPT ![i] = NewChan]
    /\ failChans' = [failChans EXCEPT ![i] = NewChan]
    /\ ipc' = [ipc EXCEPT ![i] = "roundtrip"]
    /\ i' = i + 1
    /\ UNCHANGED <<variant, N, panicked, bodyOpen, hpc, ck, res, chosen, w,
                   copied, copyErr, rt, outcomes, late, fails, responses,
                   allFailed, failed, gvars, inbound, orig, reqBody, bodyPos,
                   sent>>

\* failed := make(chan struct{}); the collector goroutine is started and the
\* handler enters its select loop.
StartCollector ==
    /\ variant = "reflect"
    /\ hpc = "loop"
    /\ i = N
    /\ failed' = "open"
    /\ cpc' = "recv"
    /\ ci' = 0
    /\ hpc' = "select"
    /\ UNCHANGED <<variant, N, rvars, panicked, bodyOpen, i, ck, res, chosen,
                   w, copied, copyErr, cancels, ivars, fails, responses,
                   allFailed, failChans>>

\* rt.RoundTrip(&req) returns: an error, or the target's response.
RoundTripR(t) ==
    /\ variant = "reflect"
    /\ ipc[t] = "roundtrip"
    /\ \E r \in Results(t) :
          /\ rt' = [rt EXCEPT ![t] = r]
          /\ bodyOpen' = IF HoldsBody(r, cancels[t]) THEN bodyOpen \cup {t}
                         ELSE bodyOpen
    /\ ipc' = [ipc EXCEPT ![t] = "returned"]
    /\ UNCHANGED <<variant, N, rvars, panicked, hvars, cancels, outcomes,
                   late, chvars, gvars>>

\* rt.RoundTrip(&req) returns an error because req.Cancel was closed while
\* the exchange was in flight.
RoundTripCanceledR(t) ==
    /\ variant = "reflect"
    /\ ipc[t] = "roundtrip"
    /\ cancels[t] = "closed"
    /\ rt' = [rt EXCEPT ![t] = ErrRes]
    /\ ipc' = [ipc EXCEPT ![t] = "returned"]
    /\ UNCHANGED <<variant, N, rvars, panicked, bodyOpen, hvars, cancels,
                   outcomes, late, chvars, gvars>>

\* The invoker's failure branches: close(fail).
CloseFail(t) ==
    /\ variant = "reflect"
    /\ ipc[t] = "returned"
    /\ ClassifyR(rt[t]) = "fail"
    /\ failChans' = [failChans EXCEPT ![t] = "closed"]
    /\ panicked' = (panicked \/ ClosePanics(failChans[t]))
    /\ outcomes' = [outcomes EXCEPT ![t] = Append(@, "fail")]
    /\ late' = [late EXCEPT ![t] = (cancels[t] = "closed")]
    /\ ipc' = [ipc EXCEPT ![t] = "done"]
    /\ rt' = [rt EXCEPT ![t] = NoRes]
    /\ UNCHANGED <<variant, N, rvars, bodyOpen, hvars, cancels, fails,
                   responses, allFailed, failed, gvars>>

\* channel <- res meets reflect.Select: the channel is unbuffered, so the
\* invoker's send completes only together with the handler's receive.
SelectRecv(t) ==
    /\ variant = "reflect"
    /\ hpc = "select"
    /\ ipc[t] = "returned"
    /\ ClassifyR(rt[t]) = "success"
    /\ res' = rt[t]
    /\ chosen' = t
    /\ hpc' = "cancel"
    /\ ck' = 0
    /\ outcomes' = [outcomes EXCEPT ![t] = Append(@, "success")]
    /\ late' = [late EXCEPT ![t] = (cancels[t] = "closed")]
    /\ ipc' = [ipc EXCEPT ![t] = "done"]
    /\ copied' = 0
    /\ rt' = [rt EXCEPT ![t] = NoRes]
    /\ UNCHANGED <<variant, N, rvars, panicked, bodyOpen, i, w, copyErr,
                   cancels, chvars, gvars>>

\* Faulty collector: its loop stops one channel short.
FailChansLen_OneShort == N - 1

\* for i := range fails: the number of fail channels the collector waits for.
FailChansLen == N

\* The collector: <-fails[i], in index order; a receive on a closed channel
\* returns at once.
CollectorRecv ==
    /\ variant = "reflect"
    /\ cpc = "recv"
    /\ ci < FailChansLen
    /\ failChans[ci] = "closed"
    /\ ci' = ci + 1
    /\ UNCHANGED <<variant, N, rvars, panicked, bodyOpen, hvars, cancels,
                   ivars, chvars, cpc>>

\* The collector: close(failed) after its loop.
CloseFailed ==
    /\ variant = "reflect"
    /\ cpc = "recv"
    /\ ci = FailChansLen
    /\ failed' = "closed"
    /\ panicked' = (panicked \/ ClosePanics(failed))
    /\ cpc' = "done"
    /\ UNCHANGED <<variant, N, rvars, bodyOpen, hvars, cancels, ivars, fails,
                   responses, allFailed, failChans, ci>>

\* Where the handler goes after writing 503: break.
After503R == "done"

\* reflect.Select chose the closed failed channel: value.Kind() is
\* reflect.Struct, the handler writes 503 and breaks.
Failed503 ==
    /\ variant = "reflect"
    /\ hpc = "select"
    /\ failed = "closed"
    /\ w' = WriteHeader(w, 503)
    /\ hpc' = After503R
    /\ UNCHANGED <<variant, N, rvars, panicked, bodyOpen, i, ck, res, chosen,
                   copied, copyErr, cancels, ivars, chvars, gvars>>

\* if i != chosen { close(cancels[i]) }: whether the loop closes cancels[k].
ClosesCancelR(k) == k # chosen

\* The cancel loop.  Each invoker reads its own cancel channel only and the
\* handler does nothing else between two closes, so the loop is one step.
CloseCancelsR ==
    /\ variant = "reflect"
    /\ hpc = "cancel"
    /\ cancels' = [t \in AllTargets |->
                      IF t \in Targets /\ ClosesCancelR(t) THEN "closed"
                      ELSE cancels[t]]
    /\ panicked' = (panicked \/ \E t \in Targets :
                                    ClosesCancelR(t) /\ ClosePanics(cancels[t]))
    /\ bodyOpen' = {t \in bodyOpen : ~(t \in Targets /\ ClosesCancelR(t))}
    /\ ck' = N
    /\ hpc' = "relay"
    /\ UNCHANGED <<variant, N, rvars, i, res, chosen, w, copied, copyErr,
                   ivars, chvars, gvars>>

\* Copy the winner's headers, then w.WriteHeader(res.StatusCode).
RelayR ==
    /\ variant = "reflect"
    /\ hpc = "relay"
    /\ w' = WriteHeader(CopyHeaders(w, HeaderOf(res.from)), res.status)
    /\ hpc' = "copy"
    /\ UNCHANGED <<variant, N, rvars, panicked, bodyOpen, i, ck, res, chosen,
                   copied, copyErr, cancels, ivars, chvars, gvars>>

\* Faulty relay: no break after io.Copy, the handler selects again.
AfterCopyR_NoBreak == "select"

\* Where the handler goes after io.Copy: break.
AfterCopyR == "done"

\* io.Copy(w, res.Body), as in the shared variant; then the handler breaks.
CopyR ==
    /\ variant = "reflect"
    /\ hpc = "copy"
    /\ \E k \in 0..BodyLen :
          /\ w' = WriteChunks(w, BodyOf(res.from), k)
          /\ copied' = k
          /\ copyErr' = IF k < BodyLen THEN "error" ELSE "nil"
          /\ bodyOpen' = IF k = BodyLen THEN bodyOpen \ {res.from}
                         ELSE bodyOpen
    /\ hpc' = AfterCopyR
    /\ UNCHANGED <<variant, N, rvars, panicked, i, ck, res, chosen, cancels,
                   ivars, chvars, gvars>>

(***************************************************************************)
(* The processes of one request, and the specifications.                   *)
(***************************************************************************)
Handler ==
    \/ Prepare \/ PrepareR
    \/ Spawn \/ StartFailCounter \/ RecvResponse \/ CloseCancels \/ Relay
    \/ Copy \/ AllFailed503
    \/ SpawnR \/ StartCollector \/ CloseCancelsR \/ RelayR \/ CopyR
    \/ Failed503
    \/ \E t \in Targets : SelectRecv(t)

Invoker(t) ==
    \/ RoundTrip(t) \/ RoundTripCanceled(t) \/ Report(t)
    \/ RoundTripR(t) \/ RoundTripCanceledR(t) \/ CloseFail(t)

FailGoroutine ==
    \/ FailCounterRecv \/ CloseAllFailed
    \/ CollectorRecv \/ CloseFailed

Next ==
    \/ Prepare
    \/ PrepareR
    \/ Spawn
    \/ StartFailCounter
    \/ \E t \in Targets : RoundTrip(t)
    \/ \E t \in Targets : RoundTripCanceled(t)
    \/ \E t \in Targets : Report(t)
    \/ FailCounterRecv
    \/ CloseAllFailed
    \/ RecvResponse
    \/ CloseCancels
    \/ Relay
    \/ Copy
    \/ AllFailed503
    \/ SpawnR
    \/ StartCollector
    \/ \E t \in Targets : RoundTripR(t)
    \/ \E t \in Targets : RoundTripCanceledR(t)
    \/ \E t \in Targets : CloseFail(t)
    \/ \E t \in Targets : SelectRecv(t)
    \/ CollectorRecv
    \/ CloseFailed
    \/ Failed503
    \/ CloseCancelsR
    \/ RelayR
    \/ CopyR

Spec == Init /\ [][Next]_vars

\* The request's way to the targets: the handler up to the end of the
\* cloning loop, and the invokers' transports writing their requests.
CloneNext ==
    \/ Prepare
    \/ Spawn
    \/ \E t \in Targets : ReadBody(t)
    \/ PrepareR
    \/ SpawnR
    \/ \E t \in Targets : ReadBodyR(t)

CloneSpec == CloneInit /\ [][CloneNext]_vars

\* Every goroutine that can take a step eventually takes one, and every
\* transport exchange eventually returns.
FairSpec ==
    /\ Spec
    /\ WF_vars(Handler)
    /\ \A t \in AllTargets : WF_vars(t \in Targets /\ Invoker(t))
    /\ WF_vars(FailGoroutine)

\* What an invoker does once its exchange is over or cancelled.
AfterExchange(t) ==
    \/ RoundTripCanceled(t) \/ Report(t)
    \/ RoundTripCanceledR(t) \/ CloseFail(t)

\* The shared-channel handler alone.
SharedInit == Init /\ variant = "shared"

SharedNext ==
    \/ Prepare
    \/ Spawn
    \/ StartFailCounter
    \/ \E t \in Targets : RoundTrip(t)
    \/ \E t \in Targets : RoundTripCanceled(t)
    \/ \E t \in Targets : Report(t)
    \/ FailCounterRecv
    \/ CloseAllFailed
    \/ RecvResponse
    \/ CloseCancels
    \/ Relay
    \/ Copy
    \/ AllFailed503

\* The shared-channel handler with targets that may hang: every goroutine
\* that can take a step eventually takes one, but an exchange is only bound
\* to return once its cancel channel is closed.
HangSpec ==
    /\ SharedInit
    /\ [][SharedNext]_vars
    /\ WF_vars(Handler)
    /\ \A t \in AllTargets : WF_vars(t \in Targets /\ AfterExchange(t))
    /\ WF_vars(FailGoroutine)

(***************************************************************************)
(* Properties.                                                             *)
(***************************************************************************)
\* The transport result r is a failure: an error, a status >= 500, or 408.
Unsatisfying(r) == r.kind = "err" \/ r.status >= 500 \/ r.status = 408

\* Some invoker has classified its result as Success.
SomeSuccess == \E t \in Targets : outcomes[t] = <<"success">>

\* Sequence p is a prefix of sequence q.
IsPrefix(p, q) == Len(p) <= Len(q) /\ \A k \in 1..Len(p) : p[k] = q[k]

\* The handler has relayed the response it received.
Relayed == res # NoRes /\ w.calls = 1 /\ w.status = res.status

\* The handler has taken the all-failed path.
Wrote503 == res = NoRes /\ w.calls = 1 /\ w.status = 503

\* C1: in the shared-channel handler, when some invoker has classified its
\* result as Success, whatever is written to the caller comes from the one
\* response the handler received from responses, itself a Success of the
\* target that sent it: the committed status and headers are that
\* response's, the body written is its body (all of it once io.Copy ended
\* without error, a prefix of it otherwise), and nothing of another target.
C1_WinnerOnly ==
    (variant = "shared" /\ SomeSuccess) =>
        /\ w.status # 0 =>
              /\ res # NoRes
              /\ outcomes[res.from] = <<"success">>
              /\ ~Unsatisfying(res)
              /\ w.status = res.status
              /\ w.sent = HeaderOf(res.from)
              /\ IsPrefix(w.body, BodyOf(res.from))
        /\ w.status = 0 => w.body = <<>>
        /\ (hpc = "done" /\ copyErr = "nil") =>
              /\ w.status # 0
              /\ w.body = BodyOf(res.from)

\* C1 witness: with two or more targets of which one failed and two
\* succeeded, the handler has relayed one Success in full.
C1_Witness ==
    /\ variant = "shared"
    /\ hpc = "done"
    /\ copyErr = "nil"
    /\ res # NoRes
    /\ w.body = BodyOf(res.from)
    /\ \E t \in Targets : t # res.from /\ outcomes[t] = <<"success">>
    /\ \E t \in Targets : outcomes[t] = <<"fail">>

\* C3: in the shared-channel handler allFailed is closed, and 503 written,
\* only when every invoker has reported Failure: no invoker has emitted a
\* Success and none is left that could still emit one.
C3_SuccessWins ==
    (variant = "shared" /\ (allFailed = "closed" \/ w.status = 503)) =>
        /\ \A t \in Targets : ipc[t] = "done" /\ outcomes[t] = <<"fail">>
        /\ responses = <<>>
        /\ res = NoRes

\* C3 witness: a Success won although N-1 Failures were counted, one of
\* them emitted by a loser after it was cancelled.
C3_Witness ==
    /\ variant = "shared"
    /\ N >= 2
    /\ ci = N - 1
    /\ hpc = "done"
    /\ Relayed
    /\ allFailed = "open"
    /\ \E t \in Targets : late[t] /\ outcomes[t] = <<"fail">>
    /\ \E t \in Targets : ~late[t] /\ outcomes[t] = <<"fail">>

\* C6: whenever an invoker reports, it reports Failure (a send on fails, or
\* the close of its fail channel) exactly when RoundTrip gave it an error, a
\* status >= 500 or status 408, and nothing goes into responses; for every
\* other status it reports Success by handing over its response (a send on
\* responses, or on its own channel to the handler's select).
C6_Classification ==
    [][\A t \in Targets :
          (ipc[t] = "returned" /\ ipc'[t] = "done") =>
              IF Unsatisfying(rt[t])
                THEN /\ outcomes'[t] = <<"fail">>
                     /\ responses' = responses
                     /\ res' = res
                     /\ variant = "shared" => fails' = Append(fails, TRUE)
                     /\ variant = "reflect" => failChans'[t] = "closed"
                ELSE /\ outcomes'[t] = <<"success">>
                     /\ fails' = fails
                     /\ failChans' = failChans
                     /\ variant = "shared" => responses' = Append(responses, rt[t])
                     /\ variant = "reflect" => res' = rt[t]]_vars

\* C6 witness: one invoker has reported Failure and another has reported
\* Success with its 499, which now waits in responses.
C6_Witness ==
    /\ variant = "shared"
    /\ \E t \in Targets : ipc[t] = "done" /\ outcomes[t] = <<"fail">>
    /\ \E t \in Targets :
          /\ ipc[t] = "done"
          /\ outcomes[t] = <<"success">>
          /\ \E k \in 1..Len(responses) : responses[k] = Response(t, 499)

\* C7 (as claimed): once the shared-channel handler has run its cancel loop,
\* the winner's cancel channel is open and every other one is closed.
C7_WinnerNotCancelled ==
    (variant = "shared" /\ hpc \in {"copy", "done"} /\ res # NoRes) =>
        /\ cancels[res.from] = "open"
        /\ \A t \in Targets : t # res.from => cancels[t] = "closed"

C10_SendsNeverBlock ==
    variant = "shared" =>
        /\ Len(fails) + Len(responses) <= N
        /\ Len(fails) <= FailsCap
        /\ Len(responses) <= ResponsesCap
        /\ \A t \in Targets :
              ipc[t] = "returned" =>
                  IF Unsatisfying(rt[t]) THEN Len(fails) < FailsCap
                  ELSE Len(responses) < ResponsesCap

\* C10 witness: the handler has returned, N-1 responses are left in the
\* channel, and an invoker reported after the return.
C10_Witness ==
    /\ variant = "shared"
    /\ N >= 2
    /\ hpc = "done"
    /\ Len(responses) = N - 1
    /\ \E t \in Targets : late[t]

\* Number of targets whose invoker has emitted outcome o.
Emitted(o) == Cardinality({t \in Targets : outcomes[t] = <<o>>})

\* C2: in the shared-channel handler allFailed is closed only after exactly
\* N receives from fails, 503 is only ever written with an empty body, and
\* once all N invokers have reported Failure the handler eventually writes
\* 503 without a body and returns.
C2_AllFailed503 ==
    /\ [](variant = "shared" /\ allFailed = "closed" => ci = N)
    /\ [](variant = "shared" /\ w.status = 503 => w.body = <<>> /\ w.calls = 1)
    /\ (variant = "shared" /\ \A t \in Targets : outcomes[t] = <<"fail">>)
          ~> (hpc = "done" /\ Wrote503 /\ w.body = <<>>)

\* C2 witness: all of two or more invokers failed, the counter closed
\* allFailed after N receives, and the handler has written and flushed 503.
C2_Witness ==
    /\ variant = "shared"
    /\ N >= 2
    /\ hpc = "done"
    /\ Wrote503
    /\ w.flushed
    /\ allFailed = "closed"
    /\ ci = N

\* C4: in both variants WriteHeader is called at most once for a request,
\* and once the handler has returned nothing more is written to w.
C4_SingleCommit ==
    /\ [](w.calls <= 1)
    /\ [][hpc = "done" => w' = w]_vars

\* C4 witness: the handler has returned after one commit while another
\* invoker's Success was still on offer.
C4_Witness ==
    /\ hpc = "done"
    /\ w.calls = 1
    /\ Relayed
    /\ \/ \E k \in 1..Len(responses) : responses[k].from # res.from
       \/ \E t \in Targets : /\ t # res.from
                             /\ ipc[t] = "returned"
                             /\ ~Unsatisfying(rt[t])

\* C5: with every goroutine scheduled fairly and every exchange returning,
\* the handler eventually returns, and when it has returned it has either
\* relayed a winner or written 503, never both and never neither.
C5_OneTerminalAction ==
    /\ <>(hpc = "done")
    /\ [](hpc = "done" => (Relayed \/ Wrote503) /\ ~(Relayed /\ Wrote503))

\* C5 witness: the handler has returned on the 503 path of the shared
\* variant after every invoker failed.
C5_Witness ==
    /\ variant = "shared"
    /\ hpc = "done"
    /\ Wrote503
    /\ ~Relayed
    /\ \A t \in Targets : ipc[t] = "done"

\* C9: no invoker emits two Outcomes, an invoker that has finished has
\* emitted exactly one, each Outcome of the shared variant is in exactly one
\* of fails and responses (or was received from it), and every invoker of
\* the shared variant eventually finishes.
C9_ExactlyOneOutcome ==
    /\ [](\A t \in Targets :
             /\ Len(outcomes[t]) <= 1
             /\ ipc[t] = "done" <=> Len(outcomes[t]) = 1)
    /\ [](variant = "shared" =>
             /\ Emitted("fail") = Len(fails) + ci
             /\ Emitted("success") = Len(responses) + (IF res = NoRes THEN 0 ELSE 1))
    /\ (variant = "shared") ~> (\A t \in Targets : ipc[t] = "done")

\* C9 witness: every invoker of a request with two or more targets has
\* finished, some with a Failure and some with a Success.
C9_Witness ==
    /\ variant = "shared"
    /\ N >= 2
    /\ \A t \in Targets : ipc[t] = "done" /\ Len(outcomes[t]) = 1
    /\ Emitted("fail") >= 1
    /\ Emitted("success") >= 1

\* No goroutine of the request can take a step: whatever has not terminated
\* is blocked on a channel operation for ever.
Quiescent == ~ENABLED Next

\* The handler has resolved the request: it has returned or left its loop.
Resolved == hpc = "done"

\* C11: full teardown of the shared-channel handler: once the request is
\* resolved and no goroutine can take a step any more, the N invokers and the
\* failure counter have all terminated; none is left blocked on a channel.
C11_FullTeardown ==
    (variant = "shared" /\ Resolved /\ Quiescent)
        => (cpc = "done" /\ \A t \in Targets : ipc[t] = "done")

\* The clones made so far.
Cloned == {t \in Targets : req[t] # NoReq}

\* C12: dispatching leaves the inbound request as it was received (its
\* RequestURI, the scheme and the host of its URL), and no clone shares its
\* URL, its header map or its body with the inbound request or with another
\* clone.
C12_OriginalUntouched ==
    /\ inbound.RequestURI = orig.RequestURI
    /\ urlObj[inbound.URL].Scheme = orig.URL.Scheme
    /\ urlObj[inbound.URL].Host = orig.URL.Host
    /\ \A t \in Cloned :
          /\ req[t].URL # inbound.URL
          /\ req[t].Header # inbound.Header
          /\ req[t].Body # inbound.Body
    /\ \A t, u \in Cloned :
          t # u => /\ req[t].URL # req[u].URL
                   /\ req[t].Header # req[u].Header
                   /\ req[t].Body # req[u].Body

\* C13: at every moment after clone t is made, whatever the cloning loop and
\* the other invokers have done since, the URL of clone t has the host of
\* target t and the path and the query of the inbound request.
C13_CloneHost ==
    \A t \in Cloned :
        LET u == urlObj[req[t].URL] IN
          /\ u # NoURL
          /\ u.Host = TargetHost(t)
          /\ u.Path = orig.URL.Path
          /\ u.RawQuery = orig.URL.RawQuery

\* C13 witness: the loop has cloned the request for two or more targets, the
\* URL of the inbound request now carries the last target's host, and the
\* transport of invoker 0 has started to write its request.
C13_Witness ==
    /\ N >= 2
    /\ i = N
    /\ Cloned = Targets
    /\ urlObj[inbound.URL].Host = TargetHost(N - 1)
    /\ urlObj[req[0].URL].Host = TargetHost(0)
    /\ sent[0] # NothingSent

\* C14: with two or more targets and a non-empty inbound body, every invoker
\* whose transport has reached the end of its clone's body has sent the
\* complete inbound body.
C14_OwnBody ==
    (N >= 2 /\ reqBody # <<>>)
        => \A t \in Targets : sent[t].eof => sent[t].chunks = reqBody

\* C15: no response of a target that is not the winner stays open for ever:
\* once the request is resolved and no goroutine can take a step any more,
\* the only response body that may still be held open is the winner's.
C15_LosersClosed ==
    (Resolved /\ Quiescent)
        => \A t \in bodyOpen : res # NoRes /\ res.from = t

\* C16: the relay of the shared-channel handler is ordered: the status is
\* committed by its one WriteHeader call when the winner's headers are in
\* place, body chunks are written only in states where the status is
\* committed already, and a copy that ends with an error is followed by the
\* handler's return, with no second WriteHeader call.
C16_RelayOrder ==
    /\ [](variant = "shared" =>
             /\ w.calls <= 1
             /\ (res # NoRes /\ w.status # 0) =>
                    /\ w.status = res.status
                    /\ w.sent = HeaderOf(res.from)
             /\ copyErr = "error" => (hpc = "done" /\ w.calls = 1))
    /\ [][(variant = "shared" /\ w'.body # w.body) =>
             (w.status # 0 /\ w'.calls = w.calls)]_vars

\* C16 witness: the copy of the winner's body ended with an error after a
\* chunk was written; the handler has returned after one WriteHeader call.
C16_Witness ==
    /\ variant = "shared"
    /\ hpc = "done"
    /\ copyErr = "error"
    /\ w.body # <<>>
    /\ w.calls = 1
    /\ w.status = res.status

\* C17: in the shared-channel handler, when a winner has been received the
\* handler relays it and returns whether or not the other targets ever
\* answer; from then on a target whose exchange is still pending has its
\* cancel channel closed, and its invoker goroutine terminates.
C17_HangingTargetCancelled ==
    /\ (variant = "shared" /\ res # NoRes)
          ~> (/\ hpc = "done"
              /\ Relayed
              /\ \A t \in Targets : cancels[t] = "closed" /\ ipc[t] = "done")
    /\ [](variant = "shared" /\ hpc \in {"relay", "copy", "done"} /\ res # NoRes
            => \A t \in Targets : cancels[t] = "closed")

\* C17 witness: the winner has been relayed and the handler has returned
\* while another target's exchange is still pending, its cancel channel
\* closed.
C17_Witness ==
    /\ variant = "shared"
    /\ hpc = "done"
    /\ Relayed
    /\ \E t \in Targets :
          t # res.from /\ ipc[t] = "roundtrip" /\ cancels[t] = "closed"

\* C18: in the reflect-select handler, an invoker that holds a Success when
\* another target has been chosen completes its send and terminates: once
\* the request is resolved and no goroutine can take a step any more, no
\* invoker is left at its send.
C18_LateSendCompletes ==
    (variant = "reflect" /\ Resolved /\ Quiescent)
        => \A t \in Targets :
              ~(ipc[t] = "returned" /\ ClassifyR(rt[t]) = "success")

\* C19: in the reflect-select handler, whatever the order in which the
\* invokers close their fail channels, once all N are closed the collector
\* closes failed and the handler writes 503 with one WriteHeader call; and
\* failed is closed only when every invoker has reported a Failure, never
\* when one holds or has delivered a Success.
C19_AllFailedAnyOrder ==
    /\ (variant = "reflect" /\ \A t \in Targets : failChans[t] = "closed")
          ~> (failed = "closed" /\ hpc = "done" /\ Wrote503)
    /\ [](variant = "reflect" /\ failed = "closed" =>
             /\ res = NoRes
             /\ w.calls <= 1
             /\ \A t \in Targets :
                   /\ outcomes[t] = <<"fail">>
                   /\ ~(ipc[t] = "returned" /\ ClassifyR(rt[t]) = "success"))

\* C19 witness: two or more invokers have failed, the collector has closed
\* failed and the handler has written 503.
C19_Witness ==
    /\ variant = "reflect"
    /\ N >= 2
    /\ \A t \in Targets : failChans[t] = "closed"
    /\ failed = "closed"
    /\ hpc = "done"
    /\ Wrote503

\* C20: no channel operation panics, in either handler: no cancel channel,
\* fail channel, allFailed or failed is closed when it is nil or closed
\* already, so each is closed at most once.  The channels that are sent on
\* (fails, responses, the per-target channels) are closed by no statement of
\* the program, so a send never meets a closed channel.
C20_NoChannelPanic ==
    /\ ~panicked
    /\ \A t \in Targets :
          variant = "reflect" =>
             (failChans[t] = "closed" <=> outcomes[t] = <<"fail">>)
    /\ allFailed = "closed" => cpc = "done"
    /\ failed = "closed" => cpc = "done"

\* C20 witness: a request with two or more targets has been resolved after
\* the cancel channels were closed, and an invoker has reported after that.
C20_Witness ==
    /\ ~panicked
    /\ N >= 2
    /\ hpc = "done"
    /\ \E t \in Targets : cancels[t] = "closed" /\ late[t]
====
